---------------------------- MODULE Spec2Model ----------------------------
(***************************************************************************)
(* Model of spoolman2slicer's SpoolmanProcessor (src/spoolman_core.py):    *)
(* the vendor/filament/spool caches, the filename/content cache with its   *)
(* usage counts, the snapshot load and the websocket event handlers.       *)
(*                                                                         *)
(* Python dicts are modelled as sequences of records in insertion order    *)
(* (entity caches) and as functions with a growing domain (output caches). *)
(* An absent dict key is a sentinel value of the same shape (id 0).        *)
(* An exception raised inside a handler stops the handler where it is      *)
(* raised: every operator below passes a state with err = TRUE through     *)
(* unchanged, so the resulting state is the partial state the code leaves. *)
(***************************************************************************)
EXTENDS Integers, Sequences, FiniteSets, TLC

VARIABLES
    mode,                     \* config.create_per_spool: "default" models None
    suffixes,                 \* get_config_suffix() of config.slicer
    variants,                 \* config.variants.split(",")
    vendors_cache,            \* self.vendors_cache
    filaments_cache,          \* self.filaments_cache
    spools_cache,             \* self.spools_cache
    filament_id_to_filename,  \* self.filament_id_to_filename
    filament_id_to_content,   \* self.filament_id_to_content
    filename_usage,           \* self.filename_usage
    disk,                     \* files of config.output_dir: filename -> body
    phase,                    \* "start" before the snapshot load, then "events"
    nev,                      \* number of events handled so far
    committed,                \* history: the cache keys committed and not
                              \* released since (no field of the processor)
    seen_empty,               \* history: the spool cache was empty after the
                              \* load or after some event
    last,                     \* the last operation: its event, I/O and outcome
    inbox,                    \* messages the connection has received and
                              \* "async for msg in connection" has not yet
                              \* yielded
    inprogress,               \* messages yielded whose handling has not ended
    handled,                  \* history: sequence numbers of the messages
                              \* handled, in the order their handling ended
    call                      \* a call of a function of its own (fetch,
                              \* configuration): its arguments and outcome

vars == <<mode, suffixes, variants, vendors_cache, filaments_cache,
          spools_cache, filament_id_to_filename, filament_id_to_content,
          filename_usage, disk, phase, nev, committed, seen_empty, last,
          inbox, inprogress, handled, call>>

stream == <<inbox, inprogress, handled>>

---------------------------------------------------------------------------
(* Bounds *)

MaxEvents == 2

---------------------------------------------------------------------------
(* Records *)

NoVendor == [id |-> 0, name |-> ""]
NoFilament == [id |-> 0, name |-> "", vendor_id |-> 0, vendor |-> NoVendor]
NoSpool == [id |-> 0, archived |-> FALSE, filament_id |-> 0,
            filament |-> NoFilament, spool_weight |-> 0, last_used |-> 0,
            shared |-> FALSE]
NoFile == <<>>

\* spool_weight 0 models an absent "spool_weight"; last_used 0 models an
\* absent or empty "last_used" (timestamps are ordered as the naturals).
\* shared is TRUE when spool["filament"] is the very dict object held in
\* filaments_cache (Python reference semantics), FALSE when it is a dict
\* of its own.

Vendor(i, n) == [id |-> i, name |-> n]
Filament(i, n, v) == [id |-> i, name |-> n, vendor_id |-> v.id, vendor |-> v]
FilamentRef(i, n, vid) ==
    [id |-> i, name |-> n, vendor_id |-> vid, vendor |-> NoVendor]
Spool(i, a, f, w, u) ==
    [id |-> i, archived |-> a, filament_id |-> f.id, filament |-> f,
     spool_weight |-> w, last_used |-> u, shared |-> FALSE]
SpoolRef(i, a, fid, w, u) ==
    [id |-> i, archived |-> a, filament_id |-> fid, filament |-> NoFilament,
     spool_weight |-> w, last_used |-> u, shared |-> FALSE]

---------------------------------------------------------------------------
(* Dict helpers: a cache is a sequence of records with distinct ids *)

Has(c, i) == \E k \in 1..Len(c) : c[k].id = i
\* a dict assignment that keeps the record already stored under the id
PutIfAbsent(c, r) == IF Has(c, r.id) THEN c ELSE Append(c, r)
Get(c, i) == c[CHOOSE k \in 1..Len(c) : c[k].id = i]
Put(c, r) ==
    IF Has(c, r.id)
    THEN [k \in 1..Len(c) |-> IF c[k].id = r.id THEN r ELSE c[k]]
    ELSE Append(c, r)
Del(c, i) == SelectSeq(c, LAMBDA r : r.id # i)
Ids(c) == {c[k].id : k \in 1..Len(c)}
Values(c) == {c[k] : k \in 1..Len(c)}

MapPut(f, k, v) == [x \in DOMAIN f \cup {k} |-> IF x = k THEN v ELSE f[x]]
MapDel(f, k) == [x \in DOMAIN f \ {k} |-> f[x]]
MapGet(f, k, d) == IF k \in DOMAIN f THEN f[k] ELSE d
EmptyMap == [x \in {} |-> 0]

---------------------------------------------------------------------------
(* Rendering *)

\* add_sm2s_to_filament: the template context. The clock fields (now,
\* now_int) are left out: templates are taken to be deterministic.
add_sm2s_to_filament(filament, suffix, variant, spool) ==
    [fil |-> filament, suffix |-> suffix, variant |-> variant, spool |-> spool]

\* get_filament_filename: filename_for_spool.template in "all" mode, else
\* filename.template ("{{vendor.name}} - {{name}}..."); the rendered name is
\* the tuple of the fields the template reads.
get_filament_filename(c) ==
    IF mode = "all"
    THEN <<c.fil.vendor.name, c.fil.name, c.spool.id, c.variant, c.suffix>>
    ELSE <<c.fil.vendor.name, c.fil.name, 0, c.variant, c.suffix>>

\* the key without the spool part: the filament id in every mode
get_filename_cache_key_by_filament(c) == <<"filament", c.fil.id, c.suffix>>

\* f"spool-{spool id}-{suffix}" is the tuple <<"spool", id, suffix>> and
\* f"{filament id}-{suffix}" the tuple <<"filament", id, suffix>>; the
\* content keys f"spool-{spool id}" and str(filament id) likewise
get_filename_cache_key(c) ==
    IF mode = "all" /\ c.spool.id # 0
    THEN <<"spool", c.spool.id, c.suffix>>
    ELSE <<"filament", c.fil.id, c.suffix>>

get_content_cache_key(c) ==
    IF mode = "all" /\ c.spool.id # 0
    THEN <<"spool", c.spool.id>>
    ELSE <<"filament", c.fil.id>>

\* template.render(filament): the body is the whole context (every field
\* may show in the text); the object-identity flag is no field of the dict.
render(c) == [c EXCEPT !.spool.shared = FALSE]

---------------------------------------------------------------------------
(* Filename/content cache.  A processor state st is a record                *)
(*   vc, fc, sc : the vendor, filament and spool caches                     *)
(*   fn, ct, us : filament_id_to_filename, _to_content, filename_usage      *)
(*   disk       : the files, filename -> body                               *)
(*   err        : an exception is propagating                               *)
(*   live       : the history variable committed                            *)
(*   io         : the file operations performed, in order: <<"write", f>>   *)
(*                or <<"remove", f, the other committed keys cached to f>>  *)

get_cached_filename_from_filaments_id(st, c) ==
    MapGet(st.fn, get_filename_cache_key(c), NoFile)

\* delete_filament that decrements the usage count of whatever the filename
\* cache returns, without looking whether that filename is counted
delete_filament_unguarded(st, c, is_update) ==
    IF st.err THEN st
    ELSE
    LET filename == get_cached_filename_from_filaments_id(st, c) IN
    IF filename \notin DOMAIN st.us THEN [st EXCEPT !.err = TRUE]
    ELSE
    LET us1 == [st.us EXCEPT ![filename] = @ - 1]
        st1 == [st EXCEPT !.us = us1, !.live = @ \ {get_filename_cache_key(c)}]
    IN
    IF us1[filename] > 0 THEN st1
    ELSE
    LET new_filename == IF is_update THEN get_filament_filename(c) ELSE NoFile IN
    IF filename # new_filename
    THEN IF filename \in DOMAIN st.disk
         THEN [st1 EXCEPT !.disk = MapDel(@, filename),
                          !.io = Append(@, <<"remove", filename,
                                             {k \in st1.live : st.fn[k] = filename}>>)]
         ELSE [st1 EXCEPT !.err = TRUE]
    ELSE st1

\* delete_filament: os.remove raises FileNotFoundError on a missing file
delete_filament(st, c, is_update) ==
    IF st.err THEN st
    ELSE
    LET filename == get_cached_filename_from_filaments_id(st, c) IN
    IF filename \notin DOMAIN st.us THEN st
    ELSE
    LET us1 == [st.us EXCEPT ![filename] = @ - 1]
        st1 == [st EXCEPT !.us = us1, !.live = @ \ {get_filename_cache_key(c)}]
    IN
    IF us1[filename] > 0 THEN st1
    ELSE
    LET new_filename == IF is_update THEN get_filament_filename(c) ELSE NoFile IN
    IF filename # new_filename
    THEN IF filename \in DOMAIN st.disk
         THEN [st1 EXCEPT !.disk = MapDel(@, filename),
                          !.io = Append(@, <<"remove", filename,
                                             {k \in st1.live : st.fn[k] = filename}>>)]
         ELSE [st1 EXCEPT !.err = TRUE]
    ELSE st1

\* write_filament without the comparison against the cached body and
\* filename: every call writes
write_filament_unconditional(st, c) ==
    IF st.err THEN st
    ELSE
    LET filename == get_filament_filename(c)
        key == get_filename_cache_key(c)
        us1 == IF filename \in DOMAIN st.us
               THEN [st.us EXCEPT ![filename] = @ + 1]
               ELSE MapPut(st.us, filename, 1)
    IN [st EXCEPT !.us = us1, !.fn = MapPut(@, key, filename),
                  !.live = @ \cup {key},
                  !.disk = MapPut(@, filename, render(c)),
                  !.ct = MapPut(@, get_content_cache_key(c), render(c)),
                  !.io = Append(@, <<"write", filename>>)]

write_filament(st, c) ==
    IF st.err THEN st
    ELSE
    LET filename == get_filament_filename(c)
        us1 == IF filename \in DOMAIN st.us
               THEN [st.us EXCEPT ![filename] = @ + 1]
               ELSE MapPut(st.us, filename, 1)
        content_cache_key == get_content_cache_key(c)
        old_filename == get_cached_filename_from_filaments_id(st, c)
        fn1 == MapPut(st.fn, get_filename_cache_key(c), filename)
        filament_text == render(c)
        same_text == /\ content_cache_key \in DOMAIN st.ct
                     /\ st.ct[content_cache_key] = filament_text
        st1 == [st EXCEPT !.us = us1, !.fn = fn1,
                          !.live = @ \cup {get_filename_cache_key(c)}]
    IN
    IF same_text /\ old_filename = filename
    THEN st1
    ELSE [st1 EXCEPT !.disk = MapPut(@, filename, filament_text),
                     !.ct = MapPut(@, content_cache_key, filament_text),
                     !.io = Append(@, <<"write", filename>>)]

---------------------------------------------------------------------------
(* The loops "for suffix in get_config_suffix(): for variant in ...split" *)

Range(q) == {q[k] : k \in 1..Len(q)}
NSV == Len(suffixes) * Len(variants)
SuffixAt(i) == suffixes[((i - 1) \div Len(variants)) + 1]
VariantAt(i) == variants[((i - 1) % Len(variants)) + 1]

RECURSIVE write_each(_, _, _, _)
\* add_sm2s_to_filament; write_filament
write_each(st, filament, spool, i) ==
    IF i > NSV THEN st
    ELSE LET c == add_sm2s_to_filament(filament, SuffixAt(i), VariantAt(i), spool)
         IN write_each(write_filament(st, c), filament, spool, i + 1)

RECURSIVE update_each(_, _, _, _)
\* add_sm2s_to_filament; delete_filament(is_update=True); write_filament
update_each(st, filament, spool, i) ==
    IF i > NSV THEN st
    ELSE LET c == add_sm2s_to_filament(filament, SuffixAt(i), VariantAt(i), spool)
         IN update_each(write_filament(delete_filament(st, c, TRUE), c),
                        filament, spool, i + 1)

RECURSIVE delete_each(_, _, _)
\* add_sm2s_to_filament (without spool); delete_filament
delete_each(st, filament, i) ==
    IF i > NSV THEN st
    ELSE LET c == add_sm2s_to_filament(filament, SuffixAt(i), VariantAt(i), NoSpool)
         IN delete_each(delete_filament(st, c, FALSE), filament, i + 1)

---------------------------------------------------------------------------
(* Output mapping policy *)

\* the same key with the id negated: the larger id wins a tie
LeastLeftLessLargestId(a, b) ==
    LET ia == IF a.spool_weight = 0 THEN 1 ELSE 0
        ib == IF b.spool_weight = 0 THEN 1 ELSE 0
    IN \/ ia < ib
       \/ ia = ib /\ a.spool_weight < b.spool_weight
       \/ ia = ib /\ a.spool_weight = b.spool_weight /\ a.id > b.id

\* key (spool_weight or +inf, id), compared as Python compares tuples
LeastLeftLess(a, b) ==
    LET ia == IF a.spool_weight = 0 THEN 1 ELSE 0
        ib == IF b.spool_weight = 0 THEN 1 ELSE 0
    IN \/ ia < ib
       \/ ia = ib /\ a.spool_weight < b.spool_weight
       \/ ia = ib /\ a.spool_weight = b.spool_weight /\ a.id < b.id

\* min(spool_list, key=...): spool_list is a non-empty set of spools
select_spool_by_least_left(spool_list) ==
    CHOOSE s \in spool_list :
        \A t \in spool_list \ {s} : LeastLeftLess(s, t)

\* a key under which an absent last_used is later than every timestamp
last_used_key_absent_latest(s) ==
    IF s.last_used = 0 THEN <<99, s.id>> ELSE <<s.last_used, 0 - s.id>>

\* last_used_key: ("", id) when last_used is absent or empty, else
\* (last_used, -id)
last_used_key(s) ==
    IF s.last_used = 0 THEN <<0, s.id>> ELSE <<s.last_used, 0 - s.id>>

MostRecentLess(a, b) ==
    LET ka == last_used_key(a)
        kb == last_used_key(b)
    IN ka[1] < kb[1] \/ (ka[1] = kb[1] /\ ka[2] < kb[2])

\* max(spool_list, key=last_used_key)
select_spool_by_most_recent(spool_list) ==
    CHOOSE s \in spool_list :
        \A t \in spool_list \ {s} : MostRecentLess(t, s)

selector_func(spool_list) ==
    IF mode = "least-left"
    THEN select_spool_by_least_left(spool_list)
    ELSE select_spool_by_most_recent(spool_list)

\* the non-archived cached spools whose embedded filament has this id
ActiveSpoolsOf(sc, filament_id) ==
    {s \in Values(sc) : s.filament.id = filament_id /\ ~s.archived}

\* handle_spool_update whose default branch asks for a non-archived spool
\* of the filament also while the spool cache is empty
handle_spool_update_strict(st, spool) ==
    IF st.err THEN st
    ELSE
    LET filament ==
            IF spool.filament.id = 0 /\ spool.filament_id # 0
                                     /\ Has(st.fc, spool.filament_id)
            THEN Get(st.fc, spool.filament_id)
            ELSE spool.filament
    IN
    IF filament.id = 0 THEN st
    ELSE IF mode = "all"
    THEN IF ~spool.archived
         THEN update_each(st, filament, [spool EXCEPT !.filament = filament], 1)
         ELSE st
    ELSE IF mode \in {"least-left", "most-recent"}
    THEN LET filament_spools == ActiveSpoolsOf(st.sc, filament.id) IN
         IF filament_spools # {}
         THEN LET selected_spool == selector_func(filament_spools)
              IN update_each(st, selected_spool.filament, selected_spool, 1)
         ELSE delete_each(st, filament, 1)
    ELSE IF ActiveSpoolsOf(st.sc, filament.id) # {}
         THEN update_each(st, filament, NoSpool, 1)
         ELSE delete_each(st, filament, 1)

\* handle_spool_update.  The lookup of a missing "filament" repeats the one
\* every caller has already made on the same caches, so it changes nothing
\* in the cached spool.
handle_spool_update(st, spool) ==
    IF st.err THEN st
    ELSE
    LET filament ==
            IF spool.filament.id = 0 /\ spool.filament_id # 0
                                     /\ Has(st.fc, spool.filament_id)
            THEN Get(st.fc, spool.filament_id)
            ELSE spool.filament
    IN
    IF filament.id = 0 THEN st
    ELSE IF mode = "all"
    THEN IF ~spool.archived
         THEN update_each(st, filament, [spool EXCEPT !.filament = filament], 1)
         ELSE st
    ELSE IF mode \in {"least-left", "most-recent"}
    THEN LET filament_spools == ActiveSpoolsOf(st.sc, filament.id) IN
         IF filament_spools # {}
         THEN LET selected_spool == selector_func(filament_spools)
              IN update_each(st, selected_spool.filament, selected_spool, 1)
         ELSE delete_each(st, filament, 1)
    ELSE LET has_active_spools ==
                 Len(st.sc) = 0 \/ ActiveSpoolsOf(st.sc, filament.id) # {}
         IN IF has_active_spools
            THEN update_each(st, filament, NoSpool, 1)
            ELSE delete_each(st, filament, 1)

---------------------------------------------------------------------------
(* Entity graph cache *)

\* "if 'vendor' not in filament: vendor_id = filament.get('vendor_id');
\*  if vendor_id and vendor_id in self.vendors_cache: filament['vendor'] = ..."
embed_vendor(vc, filament) ==
    IF filament.vendor.id = 0 /\ filament.vendor_id # 0 /\ Has(vc, filament.vendor_id)
    THEN [filament EXCEPT !.vendor = Get(vc, filament.vendor_id)]
    ELSE filament

\* "if 'filament' not in spool: filament_id = spool.get('filament_id');
\*  if filament_id and filament_id in self.filaments_cache: spool['filament'] = ..."
embed_filament(fc, spool) ==
    IF spool.filament.id = 0 /\ spool.filament_id # 0 /\ Has(fc, spool.filament_id)
    THEN [spool EXCEPT !.filament = Get(fc, spool.filament_id), !.shared = TRUE]
    ELSE [spool EXCEPT !.shared = FALSE]

\* filaments_cache[filament_id] is bound to another dict object (or to
\* none): the cached spools that held the old object keep it, unshared
Unshare(sc, filament_id) ==
    [k \in 1..Len(sc) |->
        IF sc[k].filament.id = filament_id
        THEN [sc[k] EXCEPT !.shared = FALSE] ELSE sc[k]]

\* filament["vendor"] = vendor on the cached dict object: seen at once
\* through every spool holding that same object
MutateVendor(sc, filament_id, vendor) ==
    [k \in 1..Len(sc) |->
        IF sc[k].filament.id = filament_id /\ sc[k].shared
        THEN [sc[k] EXCEPT !.filament.vendor = vendor] ELSE sc[k]]

RECURSIVE reembed_spools(_, _, _)
\* "for spool in self.spools_cache.values():
\*      if spool.get('filament', {}).get('id') == filament['id']:
\*          spool['filament'] = filament
\*          if not spool.get('archived', False): self.handle_spool_update(spool)"
reembed_spools(st, filament, j) ==
    IF st.err \/ j > Len(st.sc) THEN st
    ELSE IF st.sc[j].filament.id = filament.id
    THEN LET spool == [st.sc[j] EXCEPT !.filament = filament, !.shared = TRUE]
             st1 == [st EXCEPT !.sc[j] = spool]
         IN reembed_spools(IF ~spool.archived
                           THEN handle_spool_update(st1, spool) ELSE st1,
                           filament, j + 1)
    ELSE reembed_spools(st, filament, j + 1)

RECURSIVE update_files_for_vendor_change(_, _, _)
\* _update_files_for_vendor_change, from the i-th cached filament on
update_files_for_vendor_change(st, vendor, i) ==
    IF st.err \/ i > Len(st.fc) THEN st
    ELSE IF st.fc[i].vendor.id = vendor.id
    THEN LET filament == [st.fc[i] EXCEPT !.vendor = vendor]
             st1 == [st EXCEPT !.fc[i] = filament,
                               !.sc = MutateVendor(@, filament.id, vendor)]
         IN update_files_for_vendor_change(reembed_spools(st1, filament, 1),
                                           vendor, i + 1)
    ELSE update_files_for_vendor_change(st, vendor, i + 1)

---------------------------------------------------------------------------
(* Event handlers *)

\* a vendor handler that cascades on "added" as it does on "updated"
handle_vendor_update_msg_cascading(st, type, vendor) ==
    IF type \in {"added", "updated"}
    THEN update_files_for_vendor_change([st EXCEPT !.vc = Put(@, vendor)], vendor, 1)
    ELSE IF type = "deleted" THEN [st EXCEPT !.vc = Del(@, vendor.id)]
    ELSE st

handle_vendor_update_msg(st, type, vendor) ==
    IF type = "added" THEN [st EXCEPT !.vc = Put(@, vendor)]
    ELSE IF type = "updated"
    THEN update_files_for_vendor_change([st EXCEPT !.vc = Put(@, vendor)], vendor, 1)
    ELSE IF type = "deleted" THEN [st EXCEPT !.vc = Del(@, vendor.id)]
    ELSE st

\* a filament handler that releases the output of a "deleted" filament
handle_filament_update_msg_cascading(st, type, payload) ==
    IF type = "added"
    THEN LET filament == embed_vendor(st.vc, payload)
         IN [st EXCEPT !.fc = Put(@, filament), !.sc = Unshare(@, filament.id)]
    ELSE IF type = "updated"
    THEN LET filament == embed_vendor(st.vc, payload)
             st1 == [st EXCEPT !.fc = Put(@, filament),
                               !.sc = Unshare(@, filament.id)]
         IN reembed_spools(st1, filament, 1)
    ELSE IF type = "deleted"
    THEN IF Has(st.fc, payload.id)
         THEN delete_each([st EXCEPT !.fc = Del(@, payload.id),
                                     !.sc = Unshare(@, payload.id)],
                          Get(st.fc, payload.id), 1)
         ELSE st
    ELSE st

\* a filament handler that stores an "updated" filament as it stores an
\* "added" one, without going through the spools
handle_filament_update_msg_storing(st, type, payload) ==
    IF type \in {"added", "updated"}
    THEN LET filament == embed_vendor(st.vc, payload)
         IN [st EXCEPT !.fc = Put(@, filament), !.sc = Unshare(@, filament.id)]
    ELSE IF type = "deleted"
    THEN [st EXCEPT !.fc = Del(@, payload.id), !.sc = Unshare(@, payload.id)]
    ELSE st

handle_filament_update_msg(st, type, payload) ==
    IF type = "added"
    THEN LET filament == embed_vendor(st.vc, payload)
         IN [st EXCEPT !.fc = Put(@, filament), !.sc = Unshare(@, filament.id)]
    ELSE IF type = "updated"
    THEN LET filament == embed_vendor(st.vc, payload)
             st1 == [st EXCEPT !.fc = Put(@, filament),
                               !.sc = Unshare(@, filament.id)]
         IN reembed_spools(st1, filament, 1)
    ELSE IF type = "deleted"
    THEN [st EXCEPT !.fc = Del(@, payload.id), !.sc = Unshare(@, payload.id)]
    ELSE st

\* the reparenting branch of the "updated" case
release_old_filament(st, old_filament, new_filament) ==
    IF /\ old_filament.id # 0
       /\ new_filament.id # 0
       /\ old_filament.id # new_filament.id
       /\ mode = "default"
       /\ ActiveSpoolsOf(st.sc, old_filament.id) = {}
    THEN delete_each(st, old_filament, 1)
    ELSE st

\* a payload without "id" (id 0) is not stored ('if "id" in spool') but is
\* reconciled all the same
handle_spool_update_msg(st, type, payload) ==
    IF type = "added"
    THEN LET spool == embed_filament(st.fc, payload)
         IN handle_spool_update(
                IF spool.id # 0 THEN [st EXCEPT !.sc = Put(@, spool)] ELSE st,
                spool)
    ELSE IF type = "updated"
    THEN LET old_filament == IF Has(st.sc, payload.id)
                             THEN Get(st.sc, payload.id).filament
                             ELSE NoFilament
             spool == embed_filament(st.fc, payload)
             st1 == IF spool.id # 0 THEN [st EXCEPT !.sc = Put(@, spool)] ELSE st
         IN handle_spool_update(
                release_old_filament(st1, old_filament, spool.filament), spool)
    ELSE IF type = "deleted"
    THEN IF Has(st.sc, payload.id)
         THEN LET old_spool == Get(st.sc, payload.id)
                  st1 == [st EXCEPT !.sc = Del(@, payload.id)]
              IN IF old_spool.filament.id # 0
                 THEN handle_spool_update(st1, old_spool)
                 ELSE st1
         ELSE st
    ELSE st

\* A websocket message: body is "json" when json.loads succeeds; type ""
\* models a message without "type", has_payload FALSE one without
\* "payload", a payload with id 0 one without "id".
Msg(resource, type, vendor, filament, spool) ==
    [body |-> "json", resource |-> resource, type |-> type,
     has_payload |-> TRUE, vendor |-> vendor, filament |-> filament,
     spool |-> spool, seq |-> 0]
VendorMsg(type, vendor) == Msg("vendor", type, vendor, NoFilament, NoSpool)
FilamentMsg(type, filament) == Msg("filament", type, NoVendor, filament, NoSpool)
SpoolMsg(type, spool) == Msg("spool", type, NoVendor, NoFilament, spool)
PayloadId(msg) ==
    IF msg.resource = "vendor" THEN msg.vendor.id
    ELSE IF msg.resource = "filament" THEN msg.filament.id
    ELSE msg.spool.id

\* the KeyError of msg["payload"], msg["type"] and payload["id"]
KeyError(st) == [st EXCEPT !.err = TRUE]
MessageTypes == {"added", "updated", "deleted"}

\* connect_updates, the body of "async for msg in connection": a
\* JSONDecodeError is logged and the loop continues; an unknown resource is
\* logged; the handlers read msg["payload"], then msg["type"], then (for a
\* vendor or a filament of a known type) payload["id"]
dispatch(st, msg) ==
    IF msg.body # "json" THEN st
    ELSE IF msg.resource \notin {"vendor", "filament", "spool"} THEN st
    ELSE IF ~msg.has_payload \/ msg.type = "" THEN KeyError(st)
    ELSE IF msg.resource = "vendor"
    THEN IF msg.type \in MessageTypes /\ msg.vendor.id = 0 THEN KeyError(st)
         ELSE handle_vendor_update_msg(st, msg.type, msg.vendor)
    ELSE IF msg.resource = "filament"
    THEN IF msg.type \in MessageTypes /\ msg.filament.id = 0 THEN KeyError(st)
         ELSE handle_filament_update_msg(st, msg.type, msg.filament)
    ELSE handle_spool_update_msg(st, msg.type, msg.spool)

---------------------------------------------------------------------------
(* Snapshot load *)

RECURSIVE cache_filaments(_, _, _)
\* load_and_cache_data, the loop over filaments_list
cache_filaments(st, filaments_list, i) ==
    IF i > Len(filaments_list) THEN st
    ELSE LET filament == embed_vendor(st.vc, filaments_list[i])
         IN cache_filaments([st EXCEPT !.fc = Put(@, filament),
                                       !.sc = Unshare(@, filament.id)],
                            filaments_list, i + 1)

RECURSIVE cache_spools(_, _, _)
\* load_and_cache_data, the loop over spools_list: an embedded filament
\* replaces the cached one and is the dict the spool keeps
cache_spools(st, spools_list, i) ==
    IF i > Len(spools_list) THEN st
    ELSE LET s == spools_list[i] IN
         IF s.filament.id # 0
         THEN LET filament == embed_vendor(st.vc, s.filament)
                  spool == [s EXCEPT !.filament = filament, !.shared = TRUE]
              IN cache_spools([st EXCEPT !.fc = Put(@, filament),
                                         !.sc = Put(Unshare(@, filament.id), spool)],
                              spools_list, i + 1)
         ELSE cache_spools([st EXCEPT !.sc = Put(@, embed_filament(st.fc, s))],
                           spools_list, i + 1)

load_and_cache_data(st, vendors_list, filaments_list, spools_list) ==
    cache_spools(
        cache_filaments([st EXCEPT !.vc = vendors_list], filaments_list, 1),
        spools_list, 1)

RECURSIVE write_filaments_by_id(_, _)
\* process_filaments_default, the loop over filament_ids_with_spools (a
\* set of small ints, which CPython iterates in increasing order)
write_filaments_by_id(st, ids) ==
    IF ids = {} THEN st
    ELSE LET filament_id == CHOOSE x \in ids : \A y \in ids : x <= y
             st1 == IF Has(st.fc, filament_id)
                    THEN write_each(st, Get(st.fc, filament_id), NoSpool, 1)
                    ELSE st
         IN write_filaments_by_id(st1, ids \ {filament_id})

process_filaments_default(st, spools) ==
    write_filaments_by_id(st,
        {spools[k].filament.id : k \in
            {j \in 1..Len(spools) : ~spools[j].archived /\ spools[j].filament.id # 0}})

RECURSIVE process_filaments_per_spool_all(_, _, _)
\* spool["filament"] raises KeyError when the spool has no filament
process_filaments_per_spool_all(st, spools, i) ==
    IF st.err \/ i > Len(spools) THEN st
    ELSE LET spool == spools[i] IN
         IF spool.archived
         THEN process_filaments_per_spool_all(st, spools, i + 1)
         ELSE IF spool.filament.id = 0
         THEN [st EXCEPT !.err = TRUE]
         ELSE process_filaments_per_spool_all(
                  write_each(st, spool.filament, spool, 1), spools, i + 1)

\* the keys of filament_to_spools in insertion order: the filament ids of
\* the non-archived spools, by first occurrence
RECURSIVE filament_order(_, _, _)
filament_order(spools, i, acc) ==
    IF i > Len(spools) THEN acc
    ELSE LET filament_id == spools[i].filament.id IN
         IF spools[i].archived \/ \E k \in 1..Len(acc) : acc[k] = filament_id
         THEN filament_order(spools, i + 1, acc)
         ELSE filament_order(spools, i + 1, Append(acc, filament_id))

RECURSIVE write_selected(_, _, _, _)
write_selected(st, spools, order, i) ==
    IF i > Len(order) THEN st
    ELSE LET spool_list == {s \in Values(spools) :
                               ~s.archived /\ s.filament.id = order[i]}
             selected_spool == selector_func(spool_list)
         IN write_selected(
                write_each(st, selected_spool.filament, selected_spool, 1),
                spools, order, i + 1)

\* spool["filament"]["id"] raises KeyError in the grouping loop, before
\* anything is written
process_filaments_per_spool_selected(st, spools) ==
    IF \E k \in 1..Len(spools) : ~spools[k].archived /\ spools[k].filament.id = 0
    THEN [st EXCEPT !.err = TRUE]
    ELSE write_selected(st, spools, filament_order(spools, 1, <<>>), 1)

load_and_update_all_filaments(st, vendors_list, filaments_list, spools_list) ==
    LET st1 == load_and_cache_data(st, vendors_list, filaments_list, spools_list)
        spools == st1.sc
    IN IF mode = "all" THEN process_filaments_per_spool_all(st1, spools, 1)
       ELSE IF mode \in {"least-left", "most-recent"}
       THEN process_filaments_per_spool_selected(st1, spools)
       ELSE process_filaments_default(st1, spools)

\* load_and_cache_data when the fetch numbered fail_at raises (1: vendors,
\* 2: filaments, 3: spools; 0: none does): what was cached before stays
load_and_cache_data_until(st, vendors_list, filaments_list, spools_list, fail_at) ==
    IF fail_at = 1 THEN [st EXCEPT !.err = TRUE]
    ELSE LET st1 == [st EXCEPT !.vc = vendors_list] IN
    IF fail_at = 2 THEN [st1 EXCEPT !.err = TRUE]
    ELSE LET st2 == cache_filaments(st1, filaments_list, 1) IN
    IF fail_at = 3 THEN [st2 EXCEPT !.err = TRUE]
    ELSE cache_spools(st2, spools_list, 1)

\* load_and_update_all_filaments with a fetch that may raise
load_and_update_with_fetch(st, vendors_list, filaments_list, spools_list, fail_at) ==
    IF fail_at = 0
    THEN load_and_update_all_filaments(st, vendors_list, filaments_list, spools_list)
    ELSE load_and_cache_data_until(st, vendors_list, filaments_list,
                                   spools_list, fail_at)

\* SpoolmanProcessor.__init__: empty caches (the output directory starts empty)
NewProcessor ==
    [vc |-> <<>>, fc |-> <<>>, sc |-> <<>>,
     fn |-> EmptyMap, ct |-> EmptyMap, us |-> EmptyMap, disk |-> EmptyMap,
     err |-> FALSE, io |-> <<>>, live |-> {}]

---------------------------------------------------------------------------
(* Inputs: the records the Spoolman server sends *)

VA == Vendor(1, "A")
VB == Vendor(1, "B")
VendorPayloads == {VA, VB}

F1 == Filament(1, "p", VA)
F2 == Filament(2, "q", VA)
FilamentPayloads == {F1, Filament(1, "p", VB), F2, Filament(2, "p", VA)}
\* the filaments a spool payload embeds
EmbeddedFilaments == {F1, F2, Filament(2, "p", VA)}

SpoolIds == {10, 11}
Weights == IF mode = "least-left" THEN {0, 1} ELSE {0}
LastUsed == IF mode = "most-recent" THEN {0, 1} ELSE {0}
SpoolPayloads ==
    {Spool(i, a, f, w, u) : i \in SpoolIds, a \in BOOLEAN,
                            f \in EmbeddedFilaments, w \in Weights, u \in LastUsed}

Types == {"added", "updated", "deleted"}

\* snapshots: the lists are in id order, as the server sends them
VendorLists == {<<VA>>}
FilamentLists == {<<F1>>, <<F1, F2>>}
SnapshotSpools10 == {s \in SpoolPayloads : s.id = 10 /\ s.filament = F1}
SnapshotSpools11 == {s \in SpoolPayloads : s.id = 11 /\ ~s.archived}
SpoolLists ==
    {<<>>} \cup {<<s>> : s \in SnapshotSpools10 \cup SnapshotSpools11}
           \cup {<<s, t>> : s \in SnapshotSpools10, t \in SnapshotSpools11}

---------------------------------------------------------------------------
(* The state machine *)

Modes == {"default", "all", "least-left", "most-recent"}

Pack ==
    [vc |-> vendors_cache, fc |-> filaments_cache, sc |-> spools_cache,
     fn |-> filament_id_to_filename, ct |-> filament_id_to_content,
     us |-> filename_usage, disk |-> disk, err |-> FALSE, io |-> <<>>,
     live |-> committed]

Unpack(st) ==
    /\ vendors_cache' = st.vc
    /\ filaments_cache' = st.fc
    /\ spools_cache' = st.sc
    /\ filament_id_to_filename' = st.fn
    /\ filament_id_to_content' = st.ct
    /\ filename_usage' = st.us
    /\ disk' = st.disk
    /\ committed' = st.live
    /\ seen_empty' = (seen_empty \/ Len(st.sc) = 0)

NoEvent == [resource |-> "", type |-> "", id |-> 0, old |-> NoSpool,
            spool_list |-> <<>>, selected |-> NoSpool, io |-> <<>>,
            err |-> FALSE, loads |-> 0, payload |-> NoSpool]

InitConfig(modes, suffix_lists, variant_lists) ==
    /\ mode \in modes
    /\ suffixes \in suffix_lists
    /\ variants \in variant_lists
    /\ vendors_cache = <<>>
    /\ filaments_cache = <<>>
    /\ spools_cache = <<>>
    /\ filament_id_to_filename = EmptyMap
    /\ filament_id_to_content = EmptyMap
    /\ filename_usage = EmptyMap
    /\ disk = EmptyMap
    /\ committed = {}
    /\ seen_empty = FALSE
    /\ phase = "start"
    /\ nev = 0
    /\ inbox = <<>>
    /\ inprogress = <<>>
    /\ handled = <<>>

NoCall == [name |-> ""]

InitWith(modes, suffix_lists, variant_lists) ==
    /\ InitConfig(modes, suffix_lists, variant_lists)
    /\ last = NoEvent
    /\ call = NoCall

Init == InitWith(Modes, {<<"ini">>}, {<<"">>})

\* the attempts of the initial load that are followed
MaxLoads == 2

\* run_with_updates: one attempt of the initial load_and_update_all_filaments;
\* a failed attempt is made again after retry_delay, on what it left behind
LoadFrom(vendor_lists, filament_lists, spool_lists) ==
    /\ phase = "start" /\ last.loads < MaxLoads
    /\ \E vl \in vendor_lists, fl \in filament_lists, sl \in spool_lists :
          LET st == load_and_update_all_filaments(Pack, vl, fl, sl) IN
          /\ Unpack(st)
          /\ phase' = IF st.err THEN "start" ELSE "events"
          /\ last' = [NoEvent EXCEPT !.resource = "snapshot",
                                     !.io = st.io, !.err = st.err,
                                     !.loads = last.loads + 1,
                                     !.payload = <<vl, fl, sl>>]
    /\ UNCHANGED <<mode, suffixes, variants, nev, stream, call>>

Load == LoadFrom(VendorLists, FilamentLists, SpoolLists)

\* last.payload is msg["payload"] as received; a "deleted" message is read
\* for its id only
Handled(st, resource, type, payload, old) ==
    /\ Unpack(st)
    /\ nev' = nev + 1
    /\ last' = [NoEvent EXCEPT !.resource = resource, !.type = type,
                               !.id = payload.id, !.old = old,
                               !.io = st.io, !.err = st.err,
                               !.payload = IF type = "deleted" THEN NoSpool
                                           ELSE payload]
    /\ UNCHANGED <<mode, suffixes, variants, phase, stream, call>>

\* The server announces "added" for an id it has not sent before and
\* "updated" or "deleted" for an id it has.
Announced(cache, type, id) == (type = "added") = ~Has(cache, id)

\* connect_updates: one message with resource "vendor"
VendorEvent ==
    /\ phase = "events" /\ nev < MaxEvents
    /\ \E type \in Types, vendor \in VendorPayloads :
          /\ Announced(vendors_cache, type, vendor.id)
          /\ Handled(handle_vendor_update_msg(Pack, type, vendor),
                  "vendor", type, vendor, NoSpool)

\* connect_updates: one message with resource "filament"
FilamentEventOf(payloads) ==
    /\ phase = "events" /\ nev < MaxEvents
    /\ \E type \in Types, filament \in payloads :
          /\ Announced(filaments_cache, type, filament.id)
          /\ Handled(handle_filament_update_msg(Pack, type, filament),
                  "filament", type, filament, NoSpool)

\* connect_updates: one message with resource "spool"
SpoolEventOf(payloads) ==
    /\ phase = "events" /\ nev < MaxEvents
    /\ \E type \in Types, spool \in payloads :
          /\ Announced(spools_cache, type, spool.id)
          /\ Handled(handle_spool_update_msg(Pack, type, spool),
                  "spool", type, spool,
                  IF Has(spools_cache, spool.id)
                  THEN Get(spools_cache, spool.id) ELSE NoSpool)

FilamentEvent == FilamentEventOf(FilamentPayloads)
SpoolEvent == SpoolEventOf(SpoolPayloads)

Next == Load \/ VendorEvent \/ FilamentEvent \/ SpoolEvent

Spec == Init /\ [][Next]_vars

\* one specification per selection mode
InitDefault == InitWith({"default"}, {<<"ini">>}, {<<"">>})
SpecDefault == InitDefault /\ [][Next]_vars
InitAll == InitWith({"all"}, {<<"ini">>}, {<<"">>})
SpecAll == InitAll /\ [][Next]_vars
InitSelected == InitWith({"least-left", "most-recent"}, {<<"ini">>}, {<<"">>})
SpecSelected == InitSelected /\ [][Next]_vars

\* orcaslicer (two suffixes), and two variants
InitOrca == InitWith({"default", "all"}, {<<"json", "info">>}, {<<"">>})
SpecOrca == InitOrca /\ [][Next]_vars
InitVariants == InitWith({"default", "all"}, {<<"ini">>}, {<<"a", "b">>})
SpecVariants == InitVariants /\ [][Next]_vars

\* Records that carry only a foreign key: filament 3 and vendor 9 are in no
\* snapshot and in no event
RefFilamentLists == {<<F1>>, <<F1, FilamentRef(2, "q", 9)>>}
RefSpools ==
    {SpoolRef(10, a, fid, 0, 0) : a \in BOOLEAN, fid \in {1, 3}}
        \cup {SpoolRef(11, FALSE, 3, 0, 0), Spool(10, FALSE, F1, 0, 0),
              Spool(10, FALSE, FilamentRef(1, "p", 1), 0, 0)}
RefSpoolLists ==
    {<<>>} \cup {<<s>> : s \in {r \in RefSpools : r.id = 10}}
           \cup {<<s, t>> \in RefSpools \X RefSpools : s.id = 10 /\ t.id = 11}
RefFilaments == {F1, FilamentRef(2, "q", 9), FilamentRef(2, "q", 1)}

LoadRefs == LoadFrom(VendorLists, RefFilamentLists, RefSpoolLists)
FilamentEventRefs == FilamentEventOf(RefFilaments)
SpoolEventRefs == SpoolEventOf(RefSpools)
NextRefs == LoadRefs \/ VendorEvent \/ FilamentEventRefs \/ SpoolEventRefs
InitRefs == InitWith(Modes, {<<"ini">>}, {<<"">>})
SpecRefs == InitRefs /\ [][NextRefs]_vars

---------------------------------------------------------------------------
(* The websocket stream: delivery, "async for msg in connection", handling *)

S10 == Spool(10, FALSE, F1, 0, 0)
StreamSpoolLists == {<<>>, <<S10>>}
StreamMessages ==
    {[SpoolMsg("added", S10) EXCEPT !.body = "garbage"],
     Msg("other", "added", NoVendor, NoFilament, S10),
     [SpoolMsg("added", NoSpool) EXCEPT !.has_payload = FALSE],
     VendorMsg("", VA),
     FilamentMsg("other", F1),
     SpoolMsg("added", Spool(0, FALSE, F1, 0, 0)),
     VendorMsg("updated", Vendor(0, "B")),
     SpoolMsg("added", Spool(11, FALSE, F2, 0, 0)),
     SpoolMsg("updated", Spool(10, TRUE, F1, 0, 0)),
     SpoolMsg("deleted", S10),
     VendorMsg("updated", VB)}

\* a load that is run again at any time, also while events are consumed
LoadStreamAnytime ==
    /\ \E sl \in StreamSpoolLists, fail_at \in 0..3 :
          LET st == load_and_update_with_fetch(Pack, <<VA>>, <<F1>>, sl, fail_at) IN
          /\ Unpack(st)
          /\ phase' = IF st.err THEN "start" ELSE "events"
          /\ last' = [NoEvent EXCEPT !.resource = "snapshot",
                                     !.io = st.io, !.err = st.err]
    /\ UNCHANGED <<mode, suffixes, variants, nev, stream, call>>

\* run_with_updates: one attempt of the initial load; a failed attempt is
\* retried after retry_delay
LoadStream ==
    /\ phase = "start"
    /\ \E sl \in StreamSpoolLists, fail_at \in 0..3 :
          LET st == load_and_update_with_fetch(Pack, <<VA>>, <<F1>>, sl, fail_at) IN
          /\ Unpack(st)
          /\ phase' = IF st.err THEN "start" ELSE "events"
          /\ last' = [NoEvent EXCEPT !.resource = "snapshot",
                                     !.io = st.io, !.err = st.err]
    /\ UNCHANGED <<mode, suffixes, variants, nev, stream, call>>

\* the server sends a message on the open connection
Deliver ==
    /\ phase = "events" /\ nev < MaxEvents
    /\ \E msg \in StreamMessages :
          inbox' = Append(inbox, [msg EXCEPT !.seq = nev + 1])
    /\ nev' = nev + 1
    /\ UNCHANGED <<mode, suffixes, variants, vendors_cache, filaments_cache,
                   spools_cache, filament_id_to_filename,
                   filament_id_to_content, filename_usage, disk, phase,
                   committed, seen_empty, last, inprogress, handled, call>>

\* a loop that asks the connection for its next message while the body of
\* the previous iteration is still running
TakeWhileBusy ==
    /\ phase = "events" /\ inbox # <<>>
    /\ inprogress' = Append(inprogress, Head(inbox))
    /\ inbox' = Tail(inbox)
    /\ UNCHANGED <<mode, suffixes, variants, vendors_cache, filaments_cache,
                   spools_cache, filament_id_to_filename,
                   filament_id_to_content, filename_usage, disk, phase, nev,
                   committed, seen_empty, last, handled, call>>

\* "async for msg in connection" yields the oldest message; the loop body
\* has no await, so the loop asks for a message only when the body has ended
Take ==
    /\ phase = "events" /\ inprogress = <<>> /\ inbox # <<>>
    /\ inprogress' = <<Head(inbox)>>
    /\ inbox' = Tail(inbox)
    /\ UNCHANGED <<mode, suffixes, variants, vendors_cache, filaments_cache,
                   spools_cache, filament_id_to_filename,
                   filament_id_to_content, filename_usage, disk, phase, nev,
                   committed, seen_empty, last, handled, call>>

\* the loop body on the message taken.  An exception other than
\* JSONDecodeError leaves "async for msg in connection", is logged by
\* "except Exception" and the next connection is opened: what the old
\* connection had received is gone
Reconcile ==
    /\ inprogress # <<>>
    /\ LET msg == Head(inprogress)
           st == dispatch(Pack, msg)
       IN /\ Unpack(st)
          /\ last' = [NoEvent EXCEPT !.resource = msg.resource,
                                     !.type = msg.type, !.id = PayloadId(msg),
                                     !.old = IF msg.resource = "spool"
                                                /\ Has(spools_cache, msg.spool.id)
                                             THEN Get(spools_cache, msg.spool.id)
                                             ELSE NoSpool,
                                     !.io = st.io, !.err = st.err]
          /\ inprogress' = Tail(inprogress)
          /\ handled' = Append(handled, msg.seq)
          /\ inbox' = IF st.err THEN <<>> ELSE inbox
    /\ UNCHANGED <<mode, suffixes, variants, phase, nev, call>>

NextStream == LoadStream \/ Deliver \/ Take \/ Reconcile
InitStream == InitWith({"default", "all"}, {<<"ini">>}, {<<"">>})
SpecStream == InitStream /\ [][NextStream]_vars

\* the snapshot load alone, under every mode, slicer and variant setting
InitLoad ==
    InitWith(Modes, {<<"ini">>, <<"json", "info">>}, {<<"">>, <<"a", "b">>})
NextLoad == Load
SpecLoad == InitLoad /\ [][NextLoad]_vars

\* The spool selectors applied to a list of non-archived spools of one
\* filament
MaxWeight == 2
SelectIds == {10, 11, 12}
Candidates ==
    {Spool(i, FALSE, F1, w, u) : i \in SelectIds, w \in 0..MaxWeight,
                                 u \in 0..MaxWeight}
CandidateLists ==
    {<<s>> : s \in Candidates}
        \cup {<<s, t>> \in Candidates \X Candidates : s.id # t.id}
        \cup {<<s, t, u>> \in Candidates \X Candidates \X Candidates :
                 s.id < t.id /\ t.id # u.id /\ s.id # u.id}

InitSelect ==
    /\ InitConfig({"least-left", "most-recent"}, {<<"ini">>}, {<<"">>})
    /\ \E spool_list \in CandidateLists :
          last = [NoEvent EXCEPT !.resource = "select",
                                 !.spool_list = spool_list]
    /\ call = NoCall

\* selector_func(spool_list)
Select ==
    /\ phase = "start" /\ last.resource = "select"
    /\ last' = [last EXCEPT !.selected = selector_func(Range(last.spool_list))]
    /\ phase' = "selected"
    /\ UNCHANGED <<mode, suffixes, variants, vendors_cache, filaments_cache,
                   spools_cache, filament_id_to_filename,
                   filament_id_to_content, filename_usage, disk, nev,
                   committed, seen_empty, stream, call>>
NextSelect == Select
SpecSelect == InitSelect /\ [][NextSelect]_vars

---------------------------------------------------------------------------
(* run_with_updates against a server: the load loop and its retry delay.    *)
(* call is the server: whether it answers, and the spools it holds.         *)

LiveSpoolLists ==
    {<<>>, <<S10>>, <<SpoolRef(10, FALSE, 1, 0, 0)>>,
     <<SpoolRef(10, FALSE, 3, 0, 0)>>, <<SpoolRef(10, TRUE, 3, 0, 0)>>}

InitLive ==
    /\ InitConfig(Modes, {<<"ini">>}, {<<"">>})
    /\ last = NoEvent
    /\ \E up \in BOOLEAN, spools \in LiveSpoolLists :
          call = [name |-> "server", up |-> up, spools |-> spools]

\* the server comes up and answers from then on
ServerUp ==
    /\ call.name = "server" /\ ~call.up
    /\ call' = [call EXCEPT !.up = TRUE]
    /\ UNCHANGED <<mode, suffixes, variants, vendors_cache, filaments_cache,
                   spools_cache, filament_id_to_filename,
                   filament_id_to_content, filename_usage, disk, phase, nev,
                   committed, seen_empty, last, stream>>

\* one pass of "while True: try: self.load_and_update_all_filaments(); break":
\* the first fetch raises while the server is down; every exception leads
\* to time.sleep(retry_delay)
LoadLive ==
    /\ call.name = "server" /\ phase = "start"
    /\ LET st == load_and_update_with_fetch(Pack, <<VA>>, <<F1>>, call.spools,
                                            IF call.up THEN 0 ELSE 1) IN
       /\ Unpack(st)
       /\ phase' = IF st.err THEN "sleep" ELSE "events"
       /\ last' = [NoEvent EXCEPT !.resource = "snapshot",
                                  !.io = st.io, !.err = st.err]
    /\ UNCHANGED <<mode, suffixes, variants, nev, stream, call>>

\* time.sleep(retry_delay) returns; "continue"
RetryDelay ==
    /\ phase = "sleep"
    /\ phase' = "start"
    /\ UNCHANGED <<mode, suffixes, variants, vendors_cache, filaments_cache,
                   spools_cache, filament_id_to_filename,
                   filament_id_to_content, filename_usage, disk, nev,
                   committed, seen_empty, last, stream, call>>

NextLive == ServerUp \/ LoadLive \/ RetryDelay \/ Deliver \/ Take \/ Reconcile
\* the loop runs on, the sleep ends, and the server does come up
SpecLive ==
    /\ InitLive /\ [][NextLive]_vars
    /\ WF_vars(LoadLive) /\ WF_vars(RetryDelay) /\ WF_vars(ServerUp)

---------------------------------------------------------------------------
(* write_filament with a step that raises *)

\* the steps of write_filament that can raise: rendering the filename
\* template (line 301), the lookup of the default template after
\* TemplateNotFound (327), template.render (334), atomic_write (342, which
\* leaves the file as it was); "none": no step raises
FailPoints == {"none", "filename", "template", "render", "write"}

write_filament_raising(st, c, fails_at) ==
    IF st.err THEN st
    ELSE IF fails_at = "none" THEN write_filament(st, c)
    ELSE IF fails_at = "filename" THEN [st EXCEPT !.err = TRUE]
    ELSE
    LET filename == get_filament_filename(c)
        us1 == IF filename \in DOMAIN st.us
               THEN [st.us EXCEPT ![filename] = @ + 1]
               ELSE MapPut(st.us, filename, 1)
        fn1 == MapPut(st.fn, get_filename_cache_key(c), filename)
        content_cache_key == get_content_cache_key(c)
        old_filename == get_cached_filename_from_filaments_id(st, c)
        filament_text == render(c)
        same_text == /\ content_cache_key \in DOMAIN st.ct
                     /\ st.ct[content_cache_key] = filament_text
        st1 == [st EXCEPT !.us = us1, !.fn = fn1]
    IN
    IF fails_at \in {"template", "render"} THEN [st1 EXCEPT !.err = TRUE]
    ELSE IF same_text /\ old_filename = filename
    THEN [st1 EXCEPT !.live = @ \cup {get_filename_cache_key(c)}]
    ELSE [st1 EXCEPT !.err = TRUE]

\* the contexts of the filaments of the payloads and the caches, without
\* spool and with each cached spool
WriteContexts ==
    {add_sm2s_to_filament(f, SuffixAt(i), VariantAt(i), sp) :
        f \in FilamentPayloads \cup Range(filaments_cache),
        i \in 1..NSV,
        sp \in {NoSpool} \cup Range(spools_cache)}

\* one call of write_filament; call keeps the caches as they were before it
WriteFilament ==
    /\ phase = "events" /\ nev < MaxEvents
    /\ \E c \in WriteContexts, fails_at \in FailPoints :
          LET st == write_filament_raising(Pack, c, fails_at) IN
          /\ Unpack(st)
          /\ call' = [name |-> "write_filament", fails_at |-> fails_at,
                      fn |-> filament_id_to_filename,
                      ct |-> filament_id_to_content,
                      us |-> filename_usage]
          /\ last' = [NoEvent EXCEPT !.resource = "write_filament",
                                     !.io = st.io, !.err = st.err]
    /\ nev' = nev + 1
    /\ UNCHANGED <<mode, suffixes, variants, phase, stream>>

InitWrite == InitWith({"default", "all"}, {<<"ini">>}, {<<"">>})
NextWrite == Load \/ WriteFilament
SpecWrite == InitWrite /\ [][NextWrite]_vars

---------------------------------------------------------------------------
(* SpoolmanConfig: validation, and the run under the validated configuration *)

Slicers == {"orcaslicer", "prusaslicer", "slic3r", "superslicer"}
SlicerArgs == Slicers \cup {"cura"}
\* "None" stands for None, "" is the empty string
CreatePerSpoolArgs == {"None", "", "all", "least-left", "most-recent", "newest"}
\* truth value of an Optional[str]
Truthy(value) == value \notin {"None", ""}

\* __post_init__ checking the slicer only
post_init_slicer_only(slicer, create_per_spool) ==
    IF slicer \notin Slicers THEN "ValueError"
    ELSE ""

\* SpoolmanConfig.__post_init__: the exception raised, "" when none is
post_init(slicer, create_per_spool) ==
    IF slicer \notin Slicers THEN "ValueError"
    ELSE IF Truthy(create_per_spool)
            /\ create_per_spool \notin {"all", "least-left", "most-recent"}
    THEN "ValueError"
    ELSE ""

\* the branch the tests on config.create_per_spool select
selection_mode(create_per_spool) ==
    IF create_per_spool \in {"all", "least-left", "most-recent"}
    THEN create_per_spool
    ELSE "default"

\* get_config_suffix
get_config_suffix(slicer) ==
    IF slicer \in {"slic3r", "superslicer", "prusaslicer"} THEN <<"ini">>
    ELSE <<"json", "info">>

InitConstruct ==
    /\ mode = "" /\ suffixes = <<>> /\ variants = <<"">>
    /\ vendors_cache = <<>> /\ filaments_cache = <<>> /\ spools_cache = <<>>
    /\ filament_id_to_filename = EmptyMap
    /\ filament_id_to_content = EmptyMap
    /\ filename_usage = EmptyMap
    /\ disk = EmptyMap
    /\ committed = {} /\ seen_empty = FALSE
    /\ phase = "config" /\ nev = 0
    /\ inbox = <<>> /\ inprogress = <<>> /\ handled = <<>>
    /\ last = NoEvent
    /\ \E slicer \in SlicerArgs, create_per_spool \in CreatePerSpoolArgs :
          call = [name |-> "SpoolmanConfig", slicer |-> slicer,
                  create_per_spool |-> create_per_spool,
                  done |-> FALSE, raised |-> ""]

\* SpoolmanConfig(...) and SpoolmanProcessor(config): a ValueError leaves
\* no configuration and no processor
Construct ==
    /\ phase = "config" /\ ~call.done
    /\ LET raised == post_init(call.slicer, call.create_per_spool) IN
       /\ call' = [call EXCEPT !.done = TRUE, !.raised = raised]
       /\ IF raised # ""
          THEN phase' = "raised" /\ UNCHANGED <<mode, suffixes>>
          ELSE /\ phase' = "start"
               /\ mode' = selection_mode(call.create_per_spool)
               /\ suffixes' = get_config_suffix(call.slicer)
    /\ UNCHANGED <<variants, vendors_cache, filaments_cache, spools_cache,
                   filament_id_to_filename, filament_id_to_content,
                   filename_usage, disk, nev, committed, seen_empty, last,
                   stream>>

NextConstruct == Construct \/ LoadStream \/ Deliver \/ Take \/ Reconcile
SpecConstruct == InitConstruct /\ [][NextConstruct]_vars

---------------------------------------------------------------------------
(* load_filaments_from_spoolman: the snapshot fetch and its retries *)

MaxRetries == 3

\* what requests.get, raise_for_status and json.loads make of one request:
\* a body that parses to the list numbered data, a body that does not
\* parse, an HTTP error status, a refused connection, a timeout
Response(kind, data) == [kind |-> kind, data |-> data]
Responses ==
    {Response("ok", 1), Response("ok", 2), Response("badjson", 0),
     Response("http", 0), Response("conn", 0), Response("timeout", 0)}
ResponseLists == [1..MaxRetries -> Responses]

Returned(requests, data, waits) ==
    [requests |-> requests, raised |-> "", data |-> data, waits |-> waits]
Raised(requests, exception, waits) ==
    [requests |-> requests, raised |-> exception, data |-> 0, waits |-> waits]

\* 2**attempt
RECURSIVE Pow2(_)
Pow2(n) == IF n = 0 THEN 1 ELSE 2 * Pow2(n - 1)

\* a fetch that gives up at the first request that fails, whatever the
\* failure
attempts_without_retry(responses, max_retries, attempt, last_exception, waits) ==
    IF attempt >= max_retries
    THEN Raised(attempt, IF last_exception # "" THEN last_exception
                         ELSE "RuntimeError", waits)
    ELSE
    LET response == responses[attempt + 1] IN
    IF response.kind = "ok" THEN Returned(attempt + 1, response.data, waits)
    ELSE IF response.kind = "badjson" THEN Raised(attempt + 1, "JSONDecodeError", waits)
    ELSE IF response.kind = "http" THEN Raised(attempt + 1, "HTTPError", waits)
    ELSE Raised(attempt + 1, IF response.kind = "conn" THEN "ConnectionError"
                             ELSE "Timeout", waits)

\* "for attempt in range(max_retries)" from the given attempt on
RECURSIVE attempts(_, _, _, _, _)
attempts(responses, max_retries, attempt, last_exception, waits) ==
    IF attempt >= max_retries
    THEN Raised(attempt, IF last_exception # "" THEN last_exception
                         ELSE "RuntimeError", waits)
    ELSE
    LET response == responses[attempt + 1] IN
    IF response.kind = "ok" THEN Returned(attempt + 1, response.data, waits)
    ELSE IF response.kind = "badjson" THEN Raised(attempt + 1, "JSONDecodeError", waits)
    ELSE IF response.kind = "http" THEN Raised(attempt + 1, "HTTPError", waits)
    ELSE attempts(responses, max_retries, attempt + 1,
                  IF response.kind = "conn" THEN "ConnectionError" ELSE "Timeout",
                  IF attempt = max_retries - 1 THEN waits
                  ELSE Append(waits, Pow2(attempt)))

load_filaments_from_spoolman(responses, max_retries) ==
    attempts(responses, max_retries, 0, "", <<>>)

InitFetch ==
    /\ InitConfig({"default"}, {<<"ini">>}, {<<"">>})
    /\ last = NoEvent
    /\ \E responses \in ResponseLists, max_retries \in 0..MaxRetries :
          call = [name |-> "load_filaments_from_spoolman",
                  responses |-> responses, max_retries |-> max_retries,
                  done |-> FALSE, result |-> Returned(0, 0, <<>>)]

\* load_filaments_from_spoolman(url, max_retries) against a server that
\* answers the successive requests with call.responses
Fetch ==
    /\ call.name = "load_filaments_from_spoolman" /\ ~call.done
    /\ call' = [call EXCEPT
                   !.done = TRUE,
                   !.result = load_filaments_from_spoolman(call.responses,
                                                           call.max_retries)]
    /\ UNCHANGED <<mode, suffixes, variants, vendors_cache, filaments_cache,
                   spools_cache, filament_id_to_filename,
                   filament_id_to_content, filename_usage, disk, phase, nev,
                   committed, seen_empty, last, stream>>
NextFetch == Fetch
SpecFetch == InitFetch /\ [][NextFetch]_vars

---------------------------------------------------------------------------
(* Incremental reconciliation against a full load *)

Files == DOMAIN disk

\* the spool list a server holding exactly the cached spools would send
AsPayloads(sc) == [k \in 1..Len(sc) |-> [sc[k] EXCEPT !.shared = FALSE]]

\* load_and_update_all_filaments on a new processor, fed the cached records
FreshLoad ==
    load_and_update_all_filaments(NewProcessor, vendors_cache, filaments_cache,
                                  AsPayloads(spools_cache))

\* C1: in every mode, after the snapshot load and any sequence of events, the
\* files on disk are the files a fresh snapshot load of the cached vendors,
\* filaments and spools would produce.
C1_IncrementalEqualsFreshLoad ==
    phase = "events" => Files = DOMAIN FreshLoad.disk

---------------------------------------------------------------------------
(* Output files and their subjects *)

FilamentIds == {f.id : f \in FilamentPayloads}
FilamentKeys(f) == {<<"filament", f, sfx>> : sfx \in Range(suffixes)}
SpoolKeys(i) == {<<"spool", i, sfx>> : sfx \in Range(suffixes)}
CachedFiles(keys) ==
    {filament_id_to_filename[k] : k \in keys \cap DOMAIN filament_id_to_filename}
\* the files whose body was rendered for spool i / from filament f
SpoolFiles(i) == {F \in Files : disk[F].spool.id = i}
FilamentFiles(f) == {F \in Files : disk[F].fil.id = f}
Removed(io) == {io[k][2] : k \in {j \in 1..Len(io) : io[j][1] = "remove"}}
Written(io) == {io[k][2] : k \in {j \in 1..Len(io) : io[j][1] = "write"}}
Active(f) == ActiveSpoolsOf(spools_cache, f) # {}

\* C3: a file shared by N committed subjects is removed only after all N
\* have been released: no release removes a file to which another subject
\* is committed and not released.
C3_RemovedOnlyAfterAllReleased ==
    \A k \in 1..Len(last.io) :
        last.io[k][1] = "remove" => last.io[k][3] = {}

\* the last event was a spool "updated" event for a cached spool
SpoolUpdated ==
    /\ last.resource = "spool" /\ last.type = "updated"
    /\ last.old.id # 0 /\ Has(spools_cache, last.id)
NewSpool == Get(spools_cache, last.id)
\* ... that moved the spool from filament A to another filament B
Moved ==
    /\ SpoolUpdated
    /\ last.old.filament.id # 0
    /\ NewSpool.filament.id \notin {0, last.old.filament.id}

\* C4: in per-spool-all mode no archived cached spool has an output file;
\* in particular a spool "updated" event that turns a spool with an output
\* file from archived = false to archived = true deletes that file.
C4_ArchivedSuppressed ==
    (mode = "all" /\ phase = "events")
        => /\ \A s \in Values(spools_cache) : s.archived => SpoolFiles(s.id) = {}
           /\ (SpoolUpdated /\ ~last.old.archived /\ NewSpool.archived)
                 => SpoolFiles(last.id) = {}

\* C7: in least-left and most-recent mode a filament without a non-archived
\* spool in the cache has no output file.
C7_NoActiveSpoolNoFile ==
    (mode \in {"least-left", "most-recent"} /\ phase = "events")
        => \A f \in FilamentIds : ~Active(f) => FilamentFiles(f) = {}

\* the filaments file F is an output of: the one its body was rendered
\* from, and those whose cache key is mapped to F
OutputOf(F) ==
    {disk[F].fil.id} \cup {f \in FilamentIds : F \in CachedFiles(FilamentKeys(f))}

\* C9: in default mode, while the spool cache has never been empty, every
\* file on disk is the output of a filament that a non-archived cached
\* spool references (so the file of a filament whose last non-archived
\* spool was archived is gone).
C9_DefaultSuppressesArchivedOnly ==
    (mode = "default" /\ phase = "events" /\ ~seen_empty)
        => \A F \in Files : \E f \in OutputOf(F) : Active(f)

\* C5: in default mode, when a spool "updated" event moves a spool from
\* filament A to filament B and leaves A without a non-archived spool, A's
\* file is deleted (unless another committed subject is mapped to it), B's
\* file is on disk, and the removal of A's file comes before
\* any write.
C5_Reparenting ==
    (mode = "default" /\ Moved /\ ~Active(last.old.filament.id))
        => LET A == last.old.filament.id
               B == NewSpool.filament
               io == last.io
           IN /\ \A F \in Files :
                    A \in OutputOf(F) =>
                       \E k \in committed \ FilamentKeys(A) :
                          filament_id_to_filename[k] = F
              /\ ~NewSpool.archived =>
                    \A i \in 1..NSV :
                       LET c == add_sm2s_to_filament(B, SuffixAt(i), VariantAt(i), NoSpool)
                       IN get_filament_filename(c) \in Files
              /\ \A i, j \in 1..Len(io) :
                    (io[i][1] = "remove" /\ io[j][1] = "write"
                       /\ io[i][2] \in CachedFiles(FilamentKeys(A))) => i < j

\* C6: default mode, snapshot with filament 1 and the non-archived spool 10:
\* the load writes exactly one file, rendered from filament 1; the "deleted"
\* event for spool 10 that follows removes that file and writes nothing.
C6_Scenario ==
    (mode = "default" /\ Ids(filaments_cache) = {1})
        => /\ (last.resource = "snapshot" /\ Ids(spools_cache) = {10}
                  /\ ~Get(spools_cache, 10).archived)
              => (Len(last.io) = 1 /\ last.io[1][1] = "write"
                     /\ Files = FilamentFiles(1) /\ Cardinality(Files) = 1)
           /\ (nev = 1 /\ last.resource = "spool" /\ last.type = "deleted"
                  /\ last.id = 10 /\ ~last.old.archived /\ spools_cache = <<>>)
              => (Files = {} /\ Len(last.io) = 1 /\ last.io[1][1] = "remove")

\* C8: a spool "deleted" event removes the spool from the cache; its output
\* file is deleted unless its subject is still needed or another committed
\* subject is mapped to the file; in per-spool-all mode no file of the
\* deleted spool remains.
C8_DeletedSpoolReleased ==
    (last.resource = "spool" /\ last.type = "deleted" /\ last.old.id # 0)
        => /\ ~Has(spools_cache, last.id)
           /\ mode = "all" => SpoolFiles(last.id) = {}
           /\ (mode # "all" /\ ~Active(last.old.filament.id)) =>
                 \A F \in Files :
                    last.old.filament.id \in OutputOf(F) =>
                       \E k \in committed \ FilamentKeys(last.old.filament.id) :
                          filament_id_to_filename[k] = F

---------------------------------------------------------------------------
(* write_filament on an unchanged subject *)

\* the contexts write_filament can be called with in this state
Contexts ==
    {add_sm2s_to_filament(f, SuffixAt(i), VariantAt(i), sp) :
        f \in FilamentPayloads \cup Range(filaments_cache)
                 \cup {s.filament : s \in Range(spools_cache)},
        i \in 1..NSV,
        sp \in {NoSpool} \cup Range(spools_cache)}

\* the cached filename and the cached body of c's subject are the ones that
\* would be rendered now
SameAsCached(c) ==
    /\ get_filename_cache_key(c) \in DOMAIN filament_id_to_filename
    /\ filament_id_to_filename[get_filename_cache_key(c)] = get_filament_filename(c)
    /\ get_content_cache_key(c) \in DOMAIN filament_id_to_content
    /\ filament_id_to_content[get_content_cache_key(c)] = render(c)

\* C2: write_filament for a subject whose cached filename and cached body
\* equal the newly rendered ones writes no file and leaves the filename cache
\* and the content cache unchanged.
C2_WriteIdempotent ==
    \A c \in Contexts :
        SameAsCached(c) =>
            LET st == write_filament(Pack, c)
            IN /\ st.io = <<>>
               /\ st.disk = disk
               /\ st.fn = filament_id_to_filename
               /\ st.ct = filament_id_to_content

\* a per-spool-all "updated" event for a non-archived spool called
\* write_filament with the cached filename and body and wrote nothing
C2_Witness ==
    /\ mode = "all" /\ SpoolUpdated /\ ~NewSpool.archived
    /\ ~last.err /\ last.io = <<>>
    /\ SpoolFiles(last.id) # {}
    /\ \E c \in Contexts : c.spool.id = last.id /\ SameAsCached(c)

---------------------------------------------------------------------------
(* Spool selection *)

\* C10: select_spool_by_least_left returns, from a non-empty list of
\* non-archived spools, the spool with the smallest spool_weight (an absent
\* weight counting as +infinity) and, among equal weights, the smallest id.
C10_LeastLeftSelectsMinimum ==
    (phase = "selected" /\ mode = "least-left") =>
        LET S == Range(last.spool_list)
            r == last.selected
        IN /\ r \in S
           /\ \A t \in S \ {r} :
                 \/ r.spool_weight # 0
                      /\ (t.spool_weight = 0 \/ r.spool_weight < t.spool_weight)
                 \/ r.spool_weight = t.spool_weight /\ r.id < t.id

\* a list with an absent weight and with two equal smallest weights, from
\* which the smaller id of the two was selected
C10_Witness ==
    /\ phase = "selected" /\ mode = "least-left"
    /\ \E t, u \in Range(last.spool_list) :
          /\ t.spool_weight = 0
          /\ u.spool_weight = last.selected.spool_weight
          /\ u.spool_weight # 0
          /\ last.selected.id < u.id

\* C11: when the spools with the largest last_used (an absent or empty
\* last_used being the smallest value) are tied, select_spool_by_most_recent
\* returns the tied spool with the smallest id.
C11_MostRecentTieSmallestId ==
    (phase = "selected" /\ mode = "most-recent") =>
        LET S == Range(last.spool_list)
            winners == {s \in S : \A t \in S : t.last_used <= s.last_used}
        IN /\ last.selected \in winners
           /\ \A t \in winners : last.selected.id <= t.id

---------------------------------------------------------------------------
(* Cache keys *)

\* the snapshot held the non-archived spools 10 and 11 of one filament
TwoSpoolsOneFilament ==
    /\ last.resource = "snapshot" /\ phase = "events"
    /\ Ids(spools_cache) = {10, 11}
    /\ \A s \in Range(spools_cache) : ~s.archived
    /\ Get(spools_cache, 10).filament.id = Get(spools_cache, 11).filament.id

\* C12: in per-spool-all mode the load of two non-archived spools 10 and 11
\* of one filament produces records under the filename-cache keys
\* spool-10-<suffix> and spool-11-<suffix> and distinct files; in every other
\* mode the keys are <filament id>-<suffix>; the content-cache key is the
\* filename-cache key without the suffix.
C12_CacheKeys ==
    /\ (mode = "all" /\ TwoSpoolsOneFilament) =>
          /\ DOMAIN filament_id_to_filename =
                {<<"spool", i, sfx>> : i \in {10, 11}, sfx \in Range(suffixes)}
          /\ DOMAIN filament_id_to_content = {<<"spool", 10>>, <<"spool", 11>>}
          /\ Cardinality(Files) = 2 * NSV
    /\ (mode # "all" /\ phase = "events") =>
          /\ DOMAIN filament_id_to_filename =
                {<<"filament", f, sfx>> :
                    f \in {g \in FilamentIds : Active(g)}, sfx \in Range(suffixes)}
          /\ DOMAIN filament_id_to_content =
                {<<"filament", f>> : f \in {g \in FilamentIds : Active(g)}}

\* the per-spool-all load of spools 10 and 11 of one filament, two suffixes
C12_Witness ==
    mode = "all" /\ TwoSpoolsOneFilament /\ Len(suffixes) = 2 /\ Files # {}

---------------------------------------------------------------------------
(* Unresolvable foreign keys *)

Unresolved(sc) == {s \in Range(sc) : s.filament.id = 0}

\* C13: a spool whose filament cannot be resolved, and a filament whose
\* vendor cannot be resolved, is stored as it is and raises no error, in
\* the snapshot load and in the event handlers, in every mode.
C13_UnresolvedNotFatal ==
    /\ (last.resource = "snapshot" /\ Unresolved(spools_cache) # {}) => ~last.err
    /\ (last.resource = "spool" /\ last.type \in {"added", "updated"}
           /\ Has(spools_cache, last.id)
           /\ Get(spools_cache, last.id).filament.id = 0) => ~last.err
    /\ (last.resource = "filament" /\ last.type \in {"added", "updated"}
           /\ Has(filaments_cache, last.id)
           /\ Get(filaments_cache, last.id).vendor.id = 0) => ~last.err

---------------------------------------------------------------------------
(* The event stream *)

Seqs(q) == [i \in 1..Len(q) |-> q[i].seq]
Increasing(q) == \A i, j \in 1..Len(q) : i < j => q[i] < q[j]

\* C14: events are processed one at a time in delivery order: at most one
\* reconciliation is in progress, the next event is taken only when it has
\* ended, and the events handled, the one in progress and the ones waiting
\* follow each other in the order of their delivery.
C14_OneAtATimeInOrder ==
    /\ Len(inprogress) <= 1
    /\ Increasing(handled \o Seqs(inprogress) \o Seqs(inbox))

\* a reconciliation is in progress while the next event waits
C14_Witness == inprogress # <<>> /\ inbox # <<>>

\* C15: the snapshot load and the event stream are strictly sequential: no
\* event is delivered, taken or handled before a snapshot load has
\* succeeded, and no snapshot load runs once the stream is consumed.
C15_LoadThenEvents ==
    /\ [](phase # "events" => nev = 0 /\ stream = <<<<>>, <<>>, <<>>>>)
    /\ [](phase = "events" /\ last.resource = "snapshot" => ~last.err)
    /\ [][/\ phase = "events" => phase' = "events"
          /\ stream' # stream => phase = "events"
          /\ (last' # last /\ last'.resource = "snapshot") => phase = "start"]_vars

\* an event has been handled after the load
C15_Witness == phase = "events" /\ handled # <<>> /\ last.resource = "spool"

\* the events the stream is to drop
Dropped(msg) ==
    \/ msg.body # "json"
    \/ msg.resource \notin {"vendor", "filament", "spool"}
    \/ ~msg.has_payload
    \/ msg.type \notin MessageTypes
    \/ PayloadId(msg) = 0

\* C16: handling an event that is unparseable, lacks its payload, type or
\* id, or has an unknown type or resource changes no cache, no usage count
\* and no file, and the events waiting on the stream are still processed.
C16_DroppedEventsChangeNothing ==
    [][(inprogress # <<>> /\ handled' # handled /\ Dropped(Head(inprogress))) =>
          UNCHANGED <<vendors_cache, filaments_cache, spools_cache,
                      filament_id_to_filename, filament_id_to_content,
                      filename_usage, disk, inbox>>]_vars

\* C17: an error raised while an event is reconciled leaves the event loop
\* and reaches the caller of the event stream.
C17_ProcessingErrorsPropagate ==
    (last.resource # "snapshot" /\ last.err) => phase = "raised"

---------------------------------------------------------------------------
(* Release of a key that was never committed *)

NeverCommitted(c) ==
    get_filename_cache_key(c) \notin DOMAIN filament_id_to_filename

\* C18: delete_filament for a cache key that has no cached filename changes
\* no usage count, removes no file and raises no error.
C18_ReleaseOfUncommittedIsNoOp ==
    \A c \in Contexts, is_update \in BOOLEAN :
        NeverCommitted(c) =>
            LET st == delete_filament(Pack, c, is_update)
            IN /\ st.us = filename_usage
               /\ st.disk = disk
               /\ st.io = <<>>
               /\ ~st.err

\* a spool "added" event in default mode brought an archived spool of a
\* filament that has no file: the delete branch ran on a key never
\* committed, and nothing was removed and nothing raised
C18_Witness ==
    /\ mode = "default" /\ phase = "events"
    /\ last.resource = "spool" /\ last.type = "added"
    /\ Has(spools_cache, last.id) /\ NewSpool.archived
    /\ NewSpool.filament.id # 0 /\ ~Active(NewSpool.filament.id)
    /\ \A c \in Contexts : c.fil.id = NewSpool.filament.id => NeverCommitted(c)
    /\ ~last.err /\ last.io = <<>>

---------------------------------------------------------------------------
(* Snapshot fetch *)

Fetched == call.name = "load_filaments_from_spoolman" /\ call.done
Failed(response) == response.kind # "ok"
TransportFailure(response) == response.kind \in {"conn", "timeout"}

\* C19: load_filaments_from_spoolman returns the list of the first
\* successful request and issues no request after it, issues at most
\* max_retries requests, and raises only after max_retries requests have
\* all failed.
C19_FetchRetry ==
    Fetched =>
        LET r == call.result IN
        /\ r.requests <= call.max_retries
        /\ r.raised = "" =>
              /\ r.requests >= 1
              /\ call.responses[r.requests] = Response("ok", r.data)
              /\ \A i \in 1..(r.requests - 1) : Failed(call.responses[i])
        /\ r.raised # "" =>
              /\ r.requests = call.max_retries
              /\ \A i \in 1..call.max_retries : Failed(call.responses[i])

\* C19 as the code has it: a refused connection and a timeout are retried
\* and raised only after max_retries requests have all failed that way; an
\* HTTP error status and a body that is not JSON are raised by the request
\* they occur in, without retry.
C19_FetchRetryTransport ==
    Fetched =>
        LET r == call.result IN
        /\ r.requests <= call.max_retries
        /\ \A i \in 1..(r.requests - 1) : TransportFailure(call.responses[i])
        /\ r.raised = "" =>
              /\ r.requests >= 1
              /\ call.responses[r.requests] = Response("ok", r.data)
        /\ r.raised \in {"ConnectionError", "Timeout", "RuntimeError"} =>
              /\ r.requests = call.max_retries
              /\ \A i \in 1..call.max_retries : TransportFailure(call.responses[i])
        /\ r.raised \in {"HTTPError", "JSONDecodeError"} =>
              /\ r.requests >= 1
              /\ call.responses[r.requests].kind =
                    (IF r.raised = "HTTPError" THEN "http" ELSE "badjson")
        /\ r.raised \in {"", "ConnectionError", "Timeout", "RuntimeError",
                          "HTTPError", "JSONDecodeError"}

\* three requests were issued, 1 s and 2 s apart, and the error of the third,
\* a timeout, was raised
C19_Witness ==
    /\ Fetched /\ call.max_retries = 3
    /\ call.result.requests = 3 /\ call.result.raised = "Timeout"
    /\ call.result.waits = <<1, 2>>

---------------------------------------------------------------------------
(* Configuration *)

Constructed == call.name = "SpoolmanConfig" /\ call.done

\* C20: SpoolmanConfig raises ValueError exactly when the slicer is not one
\* of the four supported or create_per_spool is a non-empty value other
\* than all, least-left, most-recent; otherwise one of the four selection
\* modes is in force, and it stays the same for the whole run.
C20_ConfigValidation ==
    /\ [](Constructed =>
            /\ call.raised = "ValueError" <=>
                  \/ call.slicer \notin {"orcaslicer", "prusaslicer",
                                          "slic3r", "superslicer"}
                  \/ /\ call.create_per_spool \notin {"None", ""}
                     /\ call.create_per_spool \notin
                           {"all", "least-left", "most-recent"}
            /\ call.raised \in {"", "ValueError"}
            /\ call.raised = "" =>
                  /\ mode \in {"default", "all", "least-left", "most-recent"}
                  /\ mode = "default" <=> call.create_per_spool \in {"None", ""}
                  /\ mode # "default" => mode = call.create_per_spool
            /\ call.raised # "" => phase = "raised")
    /\ [][Constructed => mode' = mode /\ call' = call]_vars

\* an event was reconciled in a run configured with the empty string for
\* create_per_spool, which selects the default mode
C20_Witness ==
    /\ Constructed /\ call.create_per_spool = "" /\ mode = "default"
    /\ phase = "events" /\ handled # <<>>

---------------------------------------------------------------------------
(* Frame of the vendor and filament events *)

\* the step is the handling of an event of the resource with one of the types
EventStep(resource, types) ==
    /\ nev' = nev + 1
    /\ last'.resource = resource /\ last'.type \in types

\* C21: a vendor "added" or "deleted" event changes the vendor cache only:
\* filament cache, spool cache, filename and content caches, usage counts
\* and files stay as they are, also when cached filaments have that vendor.
C21_VendorAddedDeletedFrame ==
    [][EventStep("vendor", {"added", "deleted"}) =>
          /\ UNCHANGED <<filaments_cache, spools_cache, filament_id_to_filename,
                         filament_id_to_content, filename_usage, disk>>
          /\ last'.io = <<>> /\ ~last'.err]_vars

\* a vendor that cached filaments with files on disk embed was "deleted"
C21_Witness ==
    /\ last.resource = "vendor" /\ last.type = "deleted"
    /\ ~Has(vendors_cache, last.id)
    /\ \E f \in Range(filaments_cache) :
          f.vendor.id = last.id /\ FilamentFiles(f.id) # {}

\* C22: a filament "added" or "deleted" event changes the filament cache
\* only: no file is written or deleted and the cached spools, the filename
\* and content caches and the usage counts stay as they are, in every mode.
C22_FilamentAddedDeletedFrame ==
    [][EventStep("filament", {"added", "deleted"}) =>
          /\ AsPayloads(spools_cache') = AsPayloads(spools_cache)
          /\ UNCHANGED <<vendors_cache, filament_id_to_filename,
                         filament_id_to_content, filename_usage, disk>>
          /\ last'.io = <<>> /\ ~last'.err]_vars

\* a filament whose non-archived spool has a file on disk was "deleted"
C22_Witness ==
    /\ last.resource = "filament" /\ last.type = "deleted"
    /\ ~Has(filaments_cache, last.id)
    /\ ActiveSpoolsOf(spools_cache, last.id) # {}
    /\ Files # {}

---------------------------------------------------------------------------
(* Lifecycle of the entity caches *)

\* the fields of a record that are its own, without what it embeds
OwnOfFilament(f) == [f EXCEPT !.vendor = NoVendor]
OwnOfSpool(s) == [s EXCEPT !.filament = NoFilament, !.shared = FALSE]
Own(resource, r) ==
    IF resource = "vendor" THEN r
    ELSE IF resource = "filament" THEN OwnOfFilament(r)
    ELSE OwnOfSpool(r)
CacheOf(resource) ==
    IF resource = "vendor" THEN vendors_cache
    ELSE IF resource = "filament" THEN filaments_cache
    ELSE spools_cache
\* the record as stored: with what the payload embeds, when it embeds
Embeds(resource, r) ==
    IF resource = "vendor" THEN FALSE
    ELSE IF resource = "filament" THEN r.vendor.id # 0
    ELSE r.filament.id # 0
Stored(resource, r) == IF resource = "spool" THEN [r EXCEPT !.shared = FALSE] ELSE r

\* id j of the resource is cached after the step iff it was before, with
\* the same fields of its own
Kept(resource, j) ==
    /\ Has(CacheOf(resource)', j) <=> Has(CacheOf(resource), j)
    /\ Has(CacheOf(resource), j) =>
          Own(resource, Get(CacheOf(resource)', j))
              = Own(resource, Get(CacheOf(resource), j))

EntityIds == {0, 1, 2, 3, 9, 10, 11}

\* C23: for vendor, filament and spool alike, an id is cached iff its last
\* occurrence (snapshot, added, updated, deleted) was not "deleted", and
\* what is cached is the payload of its last added or updated event, put
\* in place of the record cached before.  Step by step: an added or updated
\* event leaves its payload cached under its id, a deleted event leaves the
\* id uncached, a successful load leaves every record of the snapshot
\* cached, and no step changes the presence or the own fields of a record
\* of any other id or of another resource.
C23_CacheLifecycle ==
    [][/\ \A resource \in {"vendor", "filament", "spool"} :
             EventStep(resource, {"added", "updated", "deleted"}) =>
                 /\ \A other \in {"vendor", "filament", "spool"} \ {resource},
                       j \in EntityIds : Kept(other, j)
                 /\ \A j \in EntityIds \ {last'.id} : Kept(resource, j)
                 /\ last'.type = "deleted" => ~Has(CacheOf(resource)', last'.id)
                 /\ last'.type \in {"added", "updated"} =>
                       /\ Has(CacheOf(resource)', last'.id)
                       /\ Own(resource, Get(CacheOf(resource)', last'.id))
                             = Own(resource, last'.payload)
                       /\ Embeds(resource, last'.payload) =>
                             Stored(resource, Get(CacheOf(resource)', last'.id))
                                 = Stored(resource, last'.payload)
       /\ (last' # last /\ last'.resource = "snapshot" /\ ~last'.err) =>
             LET vl == last'.payload[1]
                 fl == last'.payload[2]
                 sl == last'.payload[3]
                 embedded == {s.filament : s \in {t \in Range(sl) : t.filament.id # 0}}
             IN /\ vendors_cache' = vl
                /\ \A s \in Range(sl) :
                      /\ Has(spools_cache', s.id)
                      /\ OwnOfSpool(Get(spools_cache', s.id)) = OwnOfSpool(s)
                /\ \A f \in Range(fl) \cup embedded :
                      /\ Has(filaments_cache', f.id)
                      /\ \E g \in Range(fl) \cup embedded :
                            /\ g.id = f.id
                            /\ OwnOfFilament(Get(filaments_cache', f.id))
                                  = OwnOfFilament(g)
                /\ Ids(spools_cache') = Ids(spools_cache) \cup {s.id : s \in Range(sl)}
                /\ Ids(filaments_cache') =
                      Ids(filaments_cache) \cup {f.id : f \in Range(fl) \cup embedded}
      ]_vars

\* a spool "updated" event put its payload in place of a cached spool that
\* had another filament and another archived flag
C23_Witness ==
    /\ SpoolUpdated /\ ~last.err
    /\ OwnOfSpool(NewSpool) = OwnOfSpool(last.payload)
    /\ last.old.archived # NewSpool.archived
    /\ last.old.filament_id # NewSpool.filament_id

---------------------------------------------------------------------------
(* Embedding at insertion *)

\* the filament carries its vendor when the vendor cache has its vendor_id
VendorEmbedded(f) ==
    (f.vendor_id # 0 /\ Has(vendors_cache, f.vendor_id)) => f.vendor.id = f.vendor_id

\* C24: a filament stored by the snapshot load or by a filament added or
\* updated event embeds its vendor when its vendor_id is in the vendor
\* cache, and the filament embedded in a spool stored by the snapshot load
\* or by a spool added or updated event carries its vendor likewise, also
\* when the filament arrived embedded in the spool payload.
C24_EmbeddingAtInsertion ==
    /\ (last.resource = "filament" /\ last.type \in {"added", "updated"}
           /\ Has(filaments_cache, last.id)) =>
          VendorEmbedded(Get(filaments_cache, last.id))
    /\ (last.resource = "spool" /\ last.type \in {"added", "updated"}
           /\ Has(spools_cache, last.id)
           /\ Get(spools_cache, last.id).filament.id # 0) =>
          VendorEmbedded(Get(spools_cache, last.id).filament)
    /\ (last.resource = "snapshot" /\ ~last.err) =>
          /\ \A f \in Range(filaments_cache) : VendorEmbedded(f)
          /\ \A s \in Range(spools_cache) :
                s.filament.id # 0 => VendorEmbedded(s.filament)

---------------------------------------------------------------------------
(* Independence of the records of one subject *)

\* the record of combination c is in st what it was in st0: its cached
\* filename, its cached body, the usage count of its file and the file
Untouched(st0, st, c) ==
    LET key == get_filename_cache_key(c)
        content_key == get_content_cache_key(c)
        filename == get_filament_filename(c)
    IN /\ MapGet(st.fn, key, NoFile) = MapGet(st0.fn, key, NoFile)
       /\ MapGet(st.ct, content_key, NoFile) = MapGet(st0.ct, content_key, NoFile)
       /\ MapGet(st.us, filename, 0) = MapGet(st0.us, filename, 0)
       /\ MapGet(st.disk, filename, NoFile) = MapGet(st0.disk, filename, NoFile)

\* the contexts of a filament, one per suffix and variant
Combinations(f) ==
    {add_sm2s_to_filament(f, SuffixAt(i), VariantAt(i), NoSpool) : i \in 1..NSV}

\* nothing is cached or counted for the filament or for its filenames
NoRecord(f) ==
    \A c \in Combinations(f) :
        /\ get_filename_cache_key(c) \notin DOMAIN filament_id_to_filename
        /\ get_content_cache_key(c) \notin DOMAIN filament_id_to_content
        /\ get_filament_filename(c) \notin DOMAIN filename_usage
        /\ get_filament_filename(c) \notin DOMAIN disk

\* C25: the records of one subject are independent across suffix x variant.
\* Once a subject without any record has been committed for all its
\* combinations, committing or releasing the record of one combination
\* leaves the cached filename, the cached body, the usage count and the
\* file of every other combination as they are, and releasing the subject
\* for all its combinations deletes the files of all of them.
C25_CombinationsIndependent ==
    \A f \in Range(filaments_cache) :
        (mode # "all" /\ NoRecord(f)) =>
            LET st0 == write_each(Pack, f, NoSpool, 1)
                released == delete_each(st0, f, 1)
            IN /\ \A c1, c2 \in Combinations(f) :
                     c1 # c2 =>
                        /\ Untouched(st0, write_filament(st0, c1), c2)
                        /\ Untouched(st0, delete_filament(st0, c1, TRUE), c2)
                        /\ Untouched(st0, delete_filament(st0, c1, FALSE), c2)
               /\ ~released.err
               /\ \A c \in Combinations(f) :
                     get_filament_filename(c) \notin DOMAIN released.disk

---------------------------------------------------------------------------
(* The load loop *)

\* C26: in update mode the snapshot load is retried until it succeeds: once
\* the fetches succeed the processor leaves the load loop and consumes
\* events, whatever records the snapshot holds and whatever the mode.
C26_LoadEventuallySucceeds == <>(phase = "events")

---------------------------------------------------------------------------
(* Usage counts and the output caches *)

UsageOf(F) == IF F \in DOMAIN filename_usage THEN filename_usage[F] ELSE 0
KeysMappedTo(F) ==
    {k \in DOMAIN filament_id_to_filename : filament_id_to_filename[k] = F}
KnownFilenames ==
    DOMAIN filename_usage \cup
    {filament_id_to_filename[k] : k \in DOMAIN filament_id_to_filename}

\* C27: between events, the usage count of every filename is the number of
\* filename-cache keys currently mapped to that filename.
C27_UsageCountsKeys ==
    \A F \in KnownFilenames : UsageOf(F) = Cardinality(KeysMappedTo(F))

ContentKeyOf(k) == <<k[1], k[2]>>

\* C28: a filename-cache or content-cache entry exists only after a write
\* for its key, and once a release has brought the usage count of its
\* filename to zero and the file has been deleted, no entry for that key
\* remains: the key is no longer mapped to the deleted file, and it has a
\* cached body only if it is mapped to a file that exists.
C28_CacheEntryLifecycle ==
    [][/\ \A k \in DOMAIN filament_id_to_filename' :
            last'.err \/ ContentKeyOf(k) \in DOMAIN filament_id_to_content'
       /\ \A F \in Removed(last'.io) \ DOMAIN disk' :
            filename_usage'[F] = 0 =>
              \A k \in KeysMappedTo(F) :
                 /\ filament_id_to_filename'[k] # F
                 /\ ContentKeyOf(k) \in DOMAIN filament_id_to_content'
                      => filament_id_to_filename'[k] \in DOMAIN disk']_vars

---------------------------------------------------------------------------
(* Update in place *)

PriorFilename(c) == get_cached_filename_from_filaments_id(Pack, c)
Released(c) == delete_filament(Pack, c, TRUE)
Recommitted(c) == write_filament(Released(c), c)
\* the whole update of c's subject: every suffix and variant in turn
Updated(c) == update_each(Pack, c.fil, c.spool, 1)
\* the files on disk that were rendered for c's output record
RecordFiles(c) ==
    {F \in Files : /\ disk[F].fil.id = c.fil.id
                   /\ disk[F].suffix = c.suffix /\ disk[F].variant = c.variant
                   /\ mode = "all" => disk[F].spool.id = c.spool.id}

\* C29: in an update (delete_filament with is_update, then write_filament)
\* of a subject whose newly rendered filename equals its cached filename no
\* file is removed, so a file that was there is there throughout; an update
\* removes a file only when the new filename differs from the cached one
\* and the usage count of the cached one dropped to zero.
C29_InPlaceUpdateNeverDeletes ==
    \A c \in Contexts :
        /\ PriorFilename(c) = get_filament_filename(c) =>
              /\ Removed(Released(c).io) = {}
              /\ Removed(Recommitted(c).io) = {}
              /\ PriorFilename(c) \in Files =>
                    /\ PriorFilename(c) \in DOMAIN Released(c).disk
                    /\ PriorFilename(c) \in DOMAIN Recommitted(c).disk
        /\ \A F \in Removed(Recommitted(c).io) :
              /\ F = PriorFilename(c)
              /\ F # get_filament_filename(c)
              /\ Released(c).us[F] = 0
        /\ get_filament_filename(c) \in RecordFiles(c) =>
              get_filament_filename(c) \notin Removed(Updated(c).io)

---------------------------------------------------------------------------
(* The selected spool's output *)

Winner(f) == selector_func(ActiveSpoolsOf(spools_cache, f))
RenderedFromWinner(F, f) ==
    disk[F] = render(add_sm2s_to_filament(Winner(f).filament, disk[F].suffix,
                                          disk[F].variant, Winner(f)))

\* C30: in least-left and most-recent mode, after every event, for every
\* filament with a non-archived spool in the cache, an output file of that
\* filament is the one rendered from the spool selected among the
\* filament's current non-archived spools.
C30_WinnerInvariant ==
    (mode \in {"least-left", "most-recent"} /\ phase = "events" /\ ~last.err)
        => \A f \in FilamentIds :
              Active(f) => \A F \in FilamentFiles(f) : RenderedFromWinner(F, f)

---------------------------------------------------------------------------
(* Cascades of the vendor and filament "updated" events *)

\* the cached filament i embeds the vendor of the payload
OfVendor(i, vendor) == filaments_cache[i].vendor.id = vendor.id
\* the cached spool j references a cached filament of that vendor
SpoolOfVendor(j, vendor) ==
    \E i \in 1..Len(filaments_cache) :
        OfVendor(i, vendor) /\ spools_cache[j].filament.id = filaments_cache[i].id
\* the filenames rendered for a spool with its embedded filament
FilenamesOf(spool) ==
    {get_filament_filename(
         add_sm2s_to_filament(spool.filament, SuffixAt(i), VariantAt(i), spool)) :
        i \in 1..NSV}

\* a non-archived spool of the cache sc renders to filename F
StillRendered(sc, F) ==
    \E k \in 1..Len(sc) : ~sc[k].archived /\ F \in FilenamesOf(sc[k])

\* C31: after a vendor "updated" event every cached filament that embedded
\* the vendor id embeds the new vendor record, every cached spool
\* referencing such a filament embeds the updated filament, and every
\* non-archived such spool has been reconciled: where the rendered filename
\* changed the old file is gone (unless another spool still renders to it)
\* and the new one is there. When no such
\* spool is non-archived nothing is written or deleted.
C31_VendorUpdatedCascade ==
    [][(EventStep("vendor", {"updated"}) /\ ~last'.err) =>
        LET vendor == last'.payload IN
        /\ Len(filaments_cache') = Len(filaments_cache)
        /\ Len(spools_cache') = Len(spools_cache)
        /\ \A i \in 1..Len(filaments_cache) :
              OfVendor(i, vendor) =>
                  filaments_cache'[i] = [filaments_cache[i] EXCEPT !.vendor = vendor]
        /\ \A j \in 1..Len(spools_cache) :
              SpoolOfVendor(j, vendor) =>
                  /\ spools_cache'[j].filament =
                        Get(filaments_cache', spools_cache[j].filament.id)
                  /\ ~spools_cache[j].archived =>
                        \A old \in FilenamesOf(spools_cache[j]) :
                            (old \in Files /\ old \notin FilenamesOf(spools_cache'[j]))
                                => /\ old \notin DOMAIN disk'
                                        \/ StillRendered(spools_cache', old)
                                   /\ FilenamesOf(spools_cache'[j]) \subseteq DOMAIN disk'
        /\ (\A j \in 1..Len(spools_cache) :
                SpoolOfVendor(j, vendor) => spools_cache[j].archived)
              => last'.io = <<>>]_vars

\* the cached spool j references the filament id
SpoolOfFilament(j, filament_id) == spools_cache[j].filament.id = filament_id
\* the number of times the step wrote file F
WritesOf(io, F) == Cardinality({k \in 1..Len(io) : io[k] = <<"write", F>>})
\* the contexts a reconciliation of the spool renders: with the spool in
\* "all" mode, with the selected spool of the filament in least-left and
\* most-recent mode, without spool in default mode
ReconciledContexts(sc, spool) ==
    LET sp == IF mode = "all" THEN spool
              ELSE IF mode = "default" THEN NoSpool
              ELSE selector_func(ActiveSpoolsOf(sc, spool.filament.id))
    IN {add_sm2s_to_filament(spool.filament, SuffixAt(i), VariantAt(i), sp) :
           i \in 1..NSV}
\* the reconciliations that render a file of the spool: its own in "all"
\* mode, else one for each non-archived cached spool of its filament
Reconciliations(spool) ==
    IF mode = "all" THEN 1
    ELSE Cardinality({j \in 1..Len(spools_cache) :
                        /\ SpoolOfFilament(j, spool.filament.id)
                        /\ ~spools_cache[j].archived})
\* the caches hold another filename or another body for c than it renders
Stale(c) ==
    \/ PriorFilename(c) # get_filament_filename(c)
    \/ MapGet(filament_id_to_content, get_content_cache_key(c), NoFile) # render(c)

---------------------------------------------------------------------------
(* The default branch of handle_spool_update *)

\* the filament the spool event of the step reconciles: the payload's (or
\* the cached one its filament_id names), for "deleted" the removed spool's
ReconciledFilament ==
    IF last'.type = "deleted" THEN last'.old.filament
    ELSE embed_filament(filaments_cache, last'.payload).filament
KeysOf(filament) ==
    {get_filename_cache_key(
         add_sm2s_to_filament(filament, SuffixAt(i), VariantAt(i), NoSpool)) :
        i \in 1..NSV}

---------------------------------------------------------------------------
(* most-recent selection *)

\* C34: from a non-empty list of non-archived spools
\* select_spool_by_most_recent returns a spool of the list with the largest
\* last_used, and one whose last_used is absent or empty only when the
\* last_used of every spool of the list is absent or empty.
C34_MostRecentSelectsLargest ==
    (phase = "selected" /\ mode = "most-recent") =>
        LET S == Range(last.spool_list)
            r == last.selected
        IN /\ r \in S
           /\ \A t \in S : t.last_used <= r.last_used
           /\ r.last_used = 0 => \A t \in S : t.last_used = 0

\* a list with a spool without last_used and two different timestamps, the
\* later of which was selected
C34_Witness ==
    /\ phase = "selected" /\ mode = "most-recent"
    /\ \E t, u \in Range(last.spool_list) :
          /\ t.last_used = 0
          /\ u.last_used # 0 /\ u.last_used < last.selected.last_used

---------------------------------------------------------------------------
(* Usage counts and the disk *)

\* C35: the usage count of every filename is at least 0 in every reachable
\* state, after the snapshot load and any events, in every mode.
C35_UsageNonNegative ==
    \A F \in DOMAIN filename_usage : filename_usage[F] >= 0

\* C36: between events a file the engine created is on disk iff its usage
\* count is at least 1, and the engine never tries to remove a file that
\* does not exist: no event ends in an error (with embedded filaments and
\* in default mode the only error an event can end in is the
\* FileNotFoundError of os.remove).
C36_DiskAgreesWithUsage ==
    /\ \A F \in Files : UsageOf(F) >= 1
    /\ \A F \in DOMAIN filename_usage : filename_usage[F] >= 1 => F \in Files
    /\ ~last.err

---------------------------------------------------------------------------
(* The same event twice *)

\* the step handles a spool "updated" event whose payload is the payload of
\* the spool "updated" event handled just before
SameUpdateAgain ==
    /\ EventStep("spool", {"updated"})
    /\ last.resource = "spool" /\ last.type = "updated" /\ ~last.err
    /\ last'.payload = last.payload

\* C37: handling the same spool "updated" event twice in a row, with an
\* identical payload, writes no file and deletes no file the second time,
\* in every mode, with one suffix or two, with one variant or several.
C37_SameEventTwice ==
    [][SameUpdateAgain => (last'.io = <<>> /\ ~last'.err)]_vars

---------------------------------------------------------------------------
(* A commit that fails *)

\* C38: when write_filament raises (template lookup, rendering or the file
\* write fails) the filename cache, the content cache and the usage counts
\* are what they were before the call.
C38_FailedCommitChangesNothing ==
    (call.name = "write_filament" /\ call.fails_at # "none" /\ last.err) =>
        /\ filament_id_to_filename = call.fn
        /\ filament_id_to_content = call.ct
        /\ filename_usage = call.us

=============================================================================
